---- MODULE Spec2Model ----
(***************************************************************************)
(* The queue-backed delivery engine of mail-queue:                         *)
(*   internal/redisQueue/redis.go  EnqueueEmail, StartWorker,              *)
(*                                 processNextTask, sendEmailWithRetry     *)
(*   internal/senderSide           Sender.SendEmail (input validation)     *)
(*   cmd/server/main.go            the worker goroutine and its context    *)
(*   internal/api                  sendEmailHandler, bulkEmailHandler      *)
(* The Redis list "email_queue" is the sequence `queue`; RPUSH appends at  *)
(* the tail, BLPOP removes the head.  Each send request is a goroutine     *)
(* that calls EnqueueEmail once; a bulk request calls it once per email.   *)
(***************************************************************************)
EXTENDS Integers, Sequences, FiniteSets, TLC

\* ------------------------------------------------------------------ bounds
\* number of intake requests (each calls EnqueueEmail once)
NumRequests == 2
\* worker loop instances that may exist (main starts exactly one)
MaxWorkers == 2
\* emails of one bulk request (the handler accepts 1 to 50)
MaxEmails == 2

\* ------------------------------------------------------- program constants
maxRetries == 3
emailQueue == "email_queue"

Requests == 1..NumRequests
Workers == 1..MaxWorkers
\* 0 identifies entries that carry no request's data (foreign payloads)
Ids == 0..NumRequests

VARIABLES
    queue,      \* the Redis list email_queue: a sequence of payloads
    reqPc,      \* per request: "idle", "called" (its handler runs), "done" (EnqueueEmail returned)
    reqTask,    \* per request: the EmailTask passed to EnqueueEmail
    reqRet,     \* per request: the error EnqueueEmail returned (<<>> is nil)
    pc,         \* per worker: position in StartWorker/processNextTask/sendEmailWithRetry
    task,       \* per worker: the local EmailTask of processNextTask
    err,        \* per worker: the local err (<<>> is nil); at "errSleep" it is the
                \* error StartWorker logged as "Task processing error"
    cancelled,  \* the worker context's Done channel is closed
    log,        \* the logger's output: for each message and task, how many lines
    sent,       \* history: for each queue entry, the task EnqueueEmail was given
    popped,     \* history: per worker, the task as it was decoded by the last pop
    dropped,    \* history: number of popped payloads that failed to decode
    held,       \* history: per worker, the serial number of the entry it popped
    bulk        \* the bulk-send handler: its position, its lists and its response

vars == <<queue, reqPc, reqTask, reqRet, pc, task, err, cancelled, log,
          sent, popped, dropped, held, bulk>>

\* ------------------------------------------------------------------- tasks
\* var task EmailTask: Go's zero value (a nil map is the empty set of pairs)
ZeroTask == [To |-> "", Subject |-> "", TemplateName |-> "", Data |-> {}, Retries |-> 0]

\* the value of data["name"]
NameOf(data) == CHOOSE v \in Ids : <<"name", v>> \in data

\* the request a task belongs to, read off its data; 0 when it carries none
Id(t) == IF \E v \in Ids : <<"name", v>> \in t.Data THEN NameOf(t.Data) ELSE 0

\* the recipient of request r
Addr(r) == IF r % 2 = 1 THEN "a@x.com" ELSE "b@x.com"

\* what the intake layer may hand to EnqueueEmail for request r: Retries is
\* never set by the handlers; a field that was only blanks is empty after
\* strings.TrimSpace
Inputs(r) ==
    LET ok == [To |-> Addr(r), Subject |-> "S", TemplateName |-> "T",
               Data |-> {<<"name", r>>}, Retries |-> 0]
    IN {ok, [ok EXCEPT !.To = ""], [ok EXCEPT !.Subject = ""],
        [ok EXCEPT !.TemplateName = ""]}

\* ------------------------------------------------------------ wire format
\* A payload is a byte string; `json` says whether it is JSON text that
\* encoding/json accepts for an EmailTask, `obj` holds the members present.
MarshalOmitZeroAndOne(t) ==
    [json |-> TRUE,
     obj |-> IF t.Retries <= 1
             THEN [to |-> t.To, subject |-> t.Subject,
                   templateName |-> t.TemplateName, data |-> t.Data]
             ELSE [to |-> t.To, subject |-> t.Subject,
                   templateName |-> t.TemplateName, data |-> t.Data,
                   retries |-> t.Retries]]

\* json.Marshal(task): `retries,omitempty` leaves the member out when it is 0
Marshal(t) ==
    [json |-> TRUE,
     obj |-> IF t.Retries = 0
             THEN [to |-> t.To, subject |-> t.Subject,
                   templateName |-> t.TemplateName, data |-> t.Data]
             ELSE [to |-> t.To, subject |-> t.Subject,
                   templateName |-> t.TemplateName, data |-> t.Data,
                   retries |-> t.Retries]]

\* the member k of a JSON object, or the field's zero value
Member(obj, k, zero) == IF k \in DOMAIN obj THEN obj[k] ELSE zero

\* json.Unmarshal(payload, &task) into a zero task: a member that is absent
\* keeps the zero value; text that is not JSON for this struct is an error
Unmarshal(p) ==
    IF ~p.json
    THEN [err |-> <<"task deserialization error">>, task |-> ZeroTask]
    ELSE [err |-> <<>>,
          task |-> [To |-> Member(p.obj, "to", ""),
                    Subject |-> Member(p.obj, "subject", ""),
                    TemplateName |-> Member(p.obj, "templateName", ""),
                    Data |-> Member(p.obj, "data", {}),
                    Retries |-> Member(p.obj, "retries", 0)]]

\* payloads another client of the Redis list can leave in it: bytes that are
\* not JSON, and the JSON text null (which decodes to the zero task)
Garbage == [json |-> FALSE, obj |-> [k \in {} |-> 0]]
JsonNull == [json |-> TRUE, obj |-> [k \in {} |-> 0]]

\* payloads of another client that decode but lack a required member: the
\* retries member is whatever that client wrote
ForeignTasks ==
    {JsonNull,
     [json |-> TRUE, obj |-> [retries |-> maxRetries]],
     [json |-> TRUE, obj |-> [to |-> "a@x.com", templateName |-> "T", retries |-> 2]],
     [json |-> TRUE, obj |-> [to |-> "a@x.com", subject |-> "S"]],
     [json |-> TRUE, obj |-> [subject |-> "S", templateName |-> "T", retries |-> maxRetries + 1]]}

\* the list as the process finds it when it starts: empty, or holding one
\* payload that EnqueueEmail did not write
InitialQueues == {<<>>, <<Garbage>>, <<JsonNull>>}

\* --------------------------------------------------------------- the logger
MsgEnqueued == "Email task enqueued"
MsgSent == "Email sent successfully"
MsgRequeueing == "Email send failed, requeueing"
MsgMaxRetries == "Email send failed after max retries"
Msgs == {MsgEnqueued, MsgSent, MsgRequeueing, MsgMaxRetries}

\* the log after one more line msg about task id
Logged(lg, msg, id) == [lg EXCEPT ![msg][id] = @ + 1]

\* ----------------------------------------------------------------- enqueue
validateEmailTaskNoSubjectCheck(t) ==
    IF t.To = "" THEN <<"recipient email is required">>
    ELSE IF t.TemplateName = "" THEN <<"email template name is required">>
    ELSE <<>>

validateEmailTask(t) ==
    IF t.To = "" THEN <<"recipient email is required">>
    ELSE IF t.Subject = "" THEN <<"email subject is required">>
    ELSE IF t.TemplateName = "" THEN <<"email template name is required">>
    ELSE <<>>

RPushErrsIgnoresContext(ctxDone) == {<<>>, <<"store error">>}

\* the errors q.client.RPush(ctx, ...) can return: a context that is done
\* fails every command; otherwise the store answers or is unreachable
RPushErrs(ctxDone) ==
    IF ctxDone THEN {<<"context canceled">>} ELSE {<<>>, <<"store error">>}

EnqueueEmailPushesAtHead(q, lg, t, pushErr) ==
    LET verr == validateEmailTask(t) IN
    IF verr # <<>>
    THEN [err |-> <<"invalid email task">> \o verr, queue |-> q, log |-> lg, pushed |-> FALSE]
    ELSE IF pushErr # <<>>
    THEN [err |-> <<"failed to enqueue email task">> \o pushErr,
          queue |-> q, log |-> lg, pushed |-> FALSE]
    ELSE [err |-> <<>>, queue |-> <<Marshal(t)>> \o q,
          log |-> Logged(lg, MsgEnqueued, Id(t)), pushed |-> TRUE]

EnqueueEmailSwallowsStoreError(q, lg, t, pushErr) ==
    LET verr == validateEmailTask(t) IN
    IF verr # <<>>
    THEN [err |-> <<"invalid email task">> \o verr, queue |-> q, log |-> lg, pushed |-> FALSE]
    ELSE IF pushErr # <<>>
    THEN [err |-> <<>>, queue |-> q, log |-> Logged(lg, MsgEnqueued, Id(t)), pushed |-> FALSE]
    ELSE [err |-> <<>>, queue |-> Append(q, Marshal(t)),
          log |-> Logged(lg, MsgEnqueued, Id(t)), pushed |-> TRUE]

\* EnqueueEmail(ctx, task) on list q with logger state lg, when RPush answers
\* pushErr: the error returned, the list and the log afterwards
EnqueueEmail(q, lg, t, pushErr) ==
    LET verr == validateEmailTask(t) IN
    IF verr # <<>>
    THEN [err |-> <<"invalid email task">> \o verr, queue |-> q, log |-> lg, pushed |-> FALSE]
    ELSE IF pushErr # <<>>
    THEN [err |-> <<"failed to enqueue email task">> \o pushErr,
          queue |-> q, log |-> lg, pushed |-> FALSE]
    ELSE [err |-> <<>>, queue |-> Append(q, Marshal(t)),
          log |-> Logged(lg, MsgEnqueued, Id(t)), pushed |-> TRUE]

\* how many appends the log lg records for the tasks 0..n
RECURSIVE Appends(_, _)
Appends(lg, n) == IF n < 0 THEN 0 ELSE lg[MsgEnqueued][n] + Appends(lg, n - 1)

\* history of what was appended, kept parallel to the list; seq is the
\* entry's serial number among the appends of EnqueueEmail
SentAfter(res, t) ==
    IF res.pushed
    THEN Append(sent, [own |-> TRUE, task |-> t, seq |-> Appends(res.log, NumRequests)])
    ELSE sent

\* ------------------------------------------------------------ bulk intake
\* strings.TrimSpace on the strings the model uses
TrimSpace(s) == IF s = " " THEN "" ELSE s

\* the validator's `email` tag on the strings the model uses
IsEmail(s) == s \in {"a@x.com", "b@x.com"}

\* validateRequest(&req) on a SendEmailRequest: the fields in error with
\* their messages (the empty set is nil); `required` accepts a blank string
validateRequest(req) ==
    (IF req.To = "" THEN {<<"To", "this field is required">>}
     ELSE IF ~IsEmail(req.To) THEN {<<"To", "invalid email format">>} ELSE {})
    \cup (IF req.Subject = "" THEN {<<"Subject", "this field is required">>} ELSE {})
    \cup (IF req.TemplateName = "" THEN {<<"TemplateName", "this field is required">>} ELSE {})

\* the k-th email a bulk request may carry: complete, without a subject, or
\* with a subject of blanks only
BulkInputs(k) ==
    LET ok == [To |-> Addr(k), Subject |-> "S", TemplateName |-> "T", Data |-> {<<"name", k>>}]
    IN {ok, [ok EXCEPT !.Subject = ""], [ok EXCEPT !.Subject = " "]}

\* the queue.EmailTask literal the handlers build from a request
TaskOf(req) ==
    [To |-> TrimSpace(req.To), Subject |-> TrimSpace(req.Subject),
     TemplateName |-> TrimSpace(req.TemplateName), Data |-> req.Data, Retries |-> 0]

\* no bulk request has arrived
NoBulk ==
    [pc |-> "idle", emails |-> <<>>, n |-> 0, success |-> <<>>, failed |-> <<>>,
     appended |-> <<>>, resp |-> [status |-> 0]]

\* ------------------------------------------------------------------- Init
Init ==
    /\ queue \in InitialQueues
    /\ reqPc = [r \in Requests |-> "idle"]
    /\ reqTask = [r \in Requests |-> ZeroTask]
    /\ reqRet = [r \in Requests |-> <<>>]
    /\ pc = [w \in Workers |-> IF w = 1 THEN "head" ELSE "off"]
    /\ task = [w \in Workers |-> ZeroTask]
    /\ err = [w \in Workers |-> <<>>]
    /\ cancelled = FALSE
    /\ log = [m \in Msgs |-> [i \in Ids |-> 0]]
    /\ sent = [i \in 1..Len(queue) |-> [own |-> FALSE, task |-> ZeroTask, seq |-> 0]]
    /\ popped = [w \in Workers |-> ZeroTask]
    /\ dropped = 0
    /\ held = [w \in Workers |-> 0]
    /\ bulk = NoBulk

\* --------------------------------------------------------------- producers
\* a request arrives: its handler goroutine starts
Call(r) ==
    /\ reqPc[r] = "idle"
    /\ reqPc' = [reqPc EXCEPT ![r] = "called"]
    /\ UNCHANGED <<queue, reqTask, reqRet, pc, task, err, cancelled, log, sent, popped, dropped, held, bulk>>

\* the handler's EnqueueEmail(ctx, t) runs: validation and json.Marshal are
\* local to the goroutine, RPUSH is one atomic command of the store
Enqueue(r) ==
    /\ reqPc[r] = "called"
    /\ \E t \in Inputs(r), pushErr \in RPushErrs(FALSE) :
         LET res == EnqueueEmail(queue, log, t, pushErr) IN
         /\ reqTask' = [reqTask EXCEPT ![r] = t]
         /\ queue' = res.queue
         /\ log' = res.log
         /\ reqRet' = [reqRet EXCEPT ![r] = res.err]
         /\ sent' = SentAfter(res, t)
    /\ reqPc' = [reqPc EXCEPT ![r] = "done"]
    /\ UNCHANGED <<pc, task, err, cancelled, popped, dropped, held, bulk>>

\* the owner of the worker's context cancels it
Cancel ==
    /\ ~cancelled
    /\ cancelled' = TRUE
    /\ UNCHANGED <<queue, reqPc, reqTask, reqRet, pc, task, err, log, sent, popped, dropped, held, bulk>>

\* ---------------------------------------------------------- bulk handler
\* a bulk request with n emails arrives and ShouldBindJSON accepts it
BulkCall ==
    /\ bulk.pc = "idle"
    /\ \E n \in 1..MaxEmails : bulk' = [bulk EXCEPT !.pc = "loop", !.n = n]
    /\ UNCHANGED <<queue, reqPc, reqTask, reqRet, pc, task, err, cancelled, log, sent,
                   popped, dropped, held>>

BulkEmailStopsAtFailure ==
    /\ bulk.pc = "loop"
    /\ Len(bulk.emails) < bulk.n
    /\ \E emailReq \in BulkInputs(Len(bulk.emails) + 1), pushErr \in RPushErrs(FALSE) :
         IF validateRequest(emailReq) # {}
         THEN /\ bulk' = [bulk EXCEPT !.emails = Append(@, emailReq),
                                      !.failed = Append(@, emailReq.To),
                                      !.n = Len(bulk.emails) + 1]
              /\ UNCHANGED <<queue, log, sent>>
         ELSE LET t == TaskOf(emailReq)
                  res == EnqueueEmail(queue, log, t, pushErr) IN
              /\ queue' = res.queue
              /\ log' = res.log
              /\ sent' = SentAfter(res, t)
              /\ bulk' = [bulk EXCEPT
                            !.emails = Append(@, emailReq),
                            !.failed = IF res.err # <<>> THEN Append(@, t.To) ELSE @,
                            !.success = IF res.err = <<>> THEN Append(@, t.To) ELSE @,
                            !.appended = IF res.pushed THEN Append(@, Marshal(t)) ELSE @,
                            !.n = IF res.err # <<>> THEN Len(bulk.emails) + 1 ELSE @]
    /\ UNCHANGED <<reqPc, reqTask, reqRet, pc, task, err, cancelled, popped, dropped, held>>

\* one pass of the handler's loop over req.Emails
BulkEmail ==
    /\ bulk.pc = "loop"
    /\ Len(bulk.emails) < bulk.n
    /\ \E emailReq \in BulkInputs(Len(bulk.emails) + 1), pushErr \in RPushErrs(FALSE) :
         IF validateRequest(emailReq) # {}
         THEN /\ bulk' = [bulk EXCEPT !.emails = Append(@, emailReq),
                                      !.failed = Append(@, emailReq.To)]
              /\ UNCHANGED <<queue, log, sent>>
         ELSE LET t == TaskOf(emailReq)
                  res == EnqueueEmail(queue, log, t, pushErr) IN
              /\ queue' = res.queue
              /\ log' = res.log
              /\ sent' = SentAfter(res, t)
              /\ bulk' = [bulk EXCEPT
                            !.emails = Append(@, emailReq),
                            !.failed = IF res.err # <<>> THEN Append(@, t.To) ELSE @,
                            !.success = IF res.err = <<>> THEN Append(@, t.To) ELSE @,
                            !.appended = IF res.pushed THEN Append(@, Marshal(t)) ELSE @]
    /\ UNCHANGED <<reqPc, reqTask, reqRet, pc, task, err, cancelled, popped, dropped, held>>

\* the loop is over: the handler answers
BulkRespond ==
    /\ bulk.pc = "loop"
    /\ Len(bulk.emails) = bulk.n
    /\ bulk' = [bulk EXCEPT
                  !.pc = "done",
                  !.resp = IF Len(bulk.failed) > 0
                           THEN [status |-> 207, successCount |-> Len(bulk.success),
                                 failedCount |-> Len(bulk.failed),
                                 successEmails |-> bulk.success, failedEmails |-> bulk.failed]
                           ELSE [status |-> 202, successCount |-> Len(bulk.success),
                                 successEmails |-> bulk.success]]
    /\ UNCHANGED <<queue, reqPc, reqTask, reqRet, pc, task, err, cancelled, log, sent,
                   popped, dropped, held>>

SendEmailErrsNoInputCheck(t) == {<<>>, <<"delivery failed">>}

\* ------------------------------------------------------------------ worker
\* Sender.SendEmail(to, subject, templateName, data): the errors it can
\* return; with all three fields present the outcome is the renderer's and
\* the mail transport's
SendEmailErrs(t) ==
    IF t.To = "" THEN {<<"recipient email address cannot be empty">>}
    ELSE IF t.Subject = "" THEN {<<"email subject cannot be empty">>}
    ELSE IF t.TemplateName = "" THEN {<<"email template name cannot be empty">>}
    ELSE {<<>>, <<"delivery failed">>}

RetriesLeftOffByOne(t) == t.Retries <= maxRetries

\* if task.Retries < maxRetries
RetriesLeft(t) == t.Retries < maxRetries

LoopHeadIgnoresCancel(w) ==
    /\ pc[w] = "head"
    /\ pc' = [pc EXCEPT ![w] = "pop"]
    /\ UNCHANGED <<queue, reqPc, reqTask, reqRet, task, err, cancelled, log, sent, popped, dropped, held, bulk>>

\* StartWorker's select: a closed Done channel wins over default
LoopHead(w) ==
    /\ pc[w] = "head"
    /\ pc' = [pc EXCEPT ![w] = IF cancelled THEN "stopped" ELSE "pop"]
    /\ UNCHANGED <<queue, reqPc, reqTask, reqRet, task, err, cancelled, log, sent, popped, dropped, held, bulk>>

DecodeSkipsPause(result) ==
    IF Len(result) < 2
    THEN [pc |-> "errSleep", task |-> ZeroTask, err |-> <<"invalid queue result">>]
    ELSE LET dec == Unmarshal(result[2]) IN
         IF dec.err # <<>>
         THEN [pc |-> "head", task |-> ZeroTask, err |-> <<>>]
         ELSE [pc |-> "send", task |-> dec.task, err |-> <<>>]

\* processNextTask after BLPop returned `result` with a nil error: the
\* worker's next position, task and error
DecodeStopsOnMalformed(result) ==
    LET dec == Unmarshal(result[2]) IN
    IF dec.err # <<>>
    THEN [pc |-> "stopped", task |-> ZeroTask, err |-> dec.err]
    ELSE [pc |-> "send", task |-> dec.task, err |-> <<>>]

Decode(result) ==
    IF Len(result) < 2
    THEN [pc |-> "errSleep", task |-> ZeroTask, err |-> <<"invalid queue result">>]
    ELSE LET dec == Unmarshal(result[2]) IN
         IF dec.err # <<>>
         THEN [pc |-> "errSleep", task |-> ZeroTask, err |-> dec.err]
         ELSE [pc |-> "send", task |-> dec.task, err |-> <<>>]

BLPopValueLeavesEntry(w) ==
    /\ pc[w] = "pop"
    /\ queue # <<>>
    /\ LET d == Decode(<<emailQueue, Head(queue)>>) IN
         /\ pc' = [pc EXCEPT ![w] = d.pc]
         /\ task' = [task EXCEPT ![w] = d.task]
         /\ err' = [err EXCEPT ![w] = d.err]
         /\ popped' = [popped EXCEPT ![w] = d.task]
         /\ dropped' = IF d.pc = "send" THEN dropped ELSE dropped + 1
         /\ held' = [held EXCEPT ![w] = IF d.pc = "send" THEN Head(sent).seq ELSE 0]
    /\ UNCHANGED <<queue, sent, reqPc, reqTask, reqRet, cancelled, log, bulk>>

BLPopValueDuringPause(w) ==
    /\ pc[w] \in {"pop", "errSleep"}
    /\ queue # <<>>
    /\ LET d == Decode(<<emailQueue, Head(queue)>>) IN
         /\ pc' = [pc EXCEPT ![w] = d.pc]
         /\ task' = [task EXCEPT ![w] = d.task]
         /\ err' = [err EXCEPT ![w] = d.err]
         /\ popped' = [popped EXCEPT ![w] = d.task]
         /\ dropped' = IF d.pc = "send" THEN dropped ELSE dropped + 1
         /\ held' = [held EXCEPT ![w] = IF d.pc = "send" THEN Head(sent).seq ELSE 0]
    /\ queue' = Tail(queue)
    /\ sent' = Tail(sent)
    /\ UNCHANGED <<reqPc, reqTask, reqRet, cancelled, log, bulk>>

BLPopValueTakesTail(w) ==
    /\ pc[w] = "pop"
    /\ queue # <<>>
    /\ LET d == Decode(<<emailQueue, queue[Len(queue)]>>) IN
         /\ pc' = [pc EXCEPT ![w] = d.pc]
         /\ task' = [task EXCEPT ![w] = d.task]
         /\ err' = [err EXCEPT ![w] = d.err]
         /\ popped' = [popped EXCEPT ![w] = d.task]
         /\ dropped' = IF d.pc = "send" THEN dropped ELSE dropped + 1
         /\ held' = [held EXCEPT ![w] = IF d.pc = "send" THEN sent[Len(sent)].seq ELSE 0]
    /\ queue' = SubSeq(queue, 1, Len(queue) - 1)
    /\ sent' = SubSeq(sent, 1, Len(sent) - 1)
    /\ UNCHANGED <<reqPc, reqTask, reqRet, cancelled, log, bulk>>

\* BLPop returns the head of the list
BLPopValue(w) ==
    /\ pc[w] = "pop"
    /\ queue # <<>>
    /\ LET d == Decode(<<emailQueue, Head(queue)>>) IN
         /\ pc' = [pc EXCEPT ![w] = d.pc]
         /\ task' = [task EXCEPT ![w] = d.task]
         /\ err' = [err EXCEPT ![w] = d.err]
         /\ popped' = [popped EXCEPT ![w] = d.task]
         /\ dropped' = IF d.pc = "send" THEN dropped ELSE dropped + 1
         /\ held' = [held EXCEPT ![w] = IF d.pc = "send" THEN Head(sent).seq ELSE 0]
    /\ queue' = Tail(queue)
    /\ sent' = Tail(sent)
    /\ UNCHANGED <<reqPc, reqTask, reqRet, cancelled, log, bulk>>

\* BLPop returns context.Canceled: processNextTask returns nil
BLPopCanceled(w) ==
    /\ pc[w] = "pop"
    /\ cancelled
    /\ pc' = [pc EXCEPT ![w] = "head"]
    /\ UNCHANGED <<queue, reqPc, reqTask, reqRet, task, err, cancelled, log, sent, popped, dropped, held, bulk>>

BLPopErrorStopsWorker(w) ==
    /\ pc[w] = "pop"
    /\ pc' = [pc EXCEPT ![w] = "stopped"]
    /\ err' = [err EXCEPT ![w] = <<"queue retrieval error", "store error">>]
    /\ UNCHANGED <<queue, reqPc, reqTask, reqRet, task, cancelled, log, sent, popped, dropped, held, bulk>>

\* BLPop returns another error: the store is unreachable
BLPopError(w) ==
    /\ pc[w] = "pop"
    /\ pc' = [pc EXCEPT ![w] = "errSleep"]
    /\ err' = [err EXCEPT ![w] = <<"queue retrieval error", "store error">>]
    /\ UNCHANGED <<queue, reqPc, reqTask, reqRet, task, cancelled, log, sent, popped, dropped, held, bulk>>

sendEmailWithRetryRequeuesAtCeiling(t, e) ==
    IF e = <<>>
    THEN [pc |-> "head", task |-> ZeroTask, err |-> <<>>, msg |-> MsgSent]
    ELSE IF RetriesLeft(t)
    THEN [pc |-> "retryDelay", task |-> [t EXCEPT !.Retries = @ + 1], err |-> e,
          msg |-> MsgRequeueing]
    ELSE [pc |-> "retryDelay", task |-> t, err |-> e, msg |-> MsgMaxRetries]

sendEmailWithRetryNoIncrement(t, e) ==
    IF e = <<>>
    THEN [pc |-> "head", task |-> ZeroTask, err |-> <<>>, msg |-> MsgSent]
    ELSE IF RetriesLeft(t)
    THEN [pc |-> "retryDelay", task |-> t, err |-> e, msg |-> MsgRequeueing]
    ELSE [pc |-> "errSleep", task |-> ZeroTask, err |-> e, msg |-> MsgMaxRetries]

sendEmailWithRetryRequeuesOnSuccess(t, e) ==
    IF e = <<>>
    THEN [pc |-> "retryDelay", task |-> t, err |-> <<>>, msg |-> MsgSent]
    ELSE IF RetriesLeft(t)
    THEN [pc |-> "retryDelay", task |-> [t EXCEPT !.Retries = @ + 1], err |-> e,
          msg |-> MsgRequeueing]
    ELSE [pc |-> "errSleep", task |-> ZeroTask, err |-> e, msg |-> MsgMaxRetries]

sendEmailWithRetryDropsSilently(t, e) ==
    IF e = <<>>
    THEN [pc |-> "head", task |-> ZeroTask, err |-> <<>>, msg |-> MsgSent]
    ELSE IF RetriesLeft(t)
    THEN [pc |-> "retryDelay", task |-> [t EXCEPT !.Retries = @ + 1], err |-> e,
          msg |-> MsgRequeueing]
    ELSE [pc |-> "head", task |-> ZeroTask, err |-> <<>>, msg |-> MsgMaxRetries]

\* sendEmailWithRetry(ctx, t) when SendEmail returned e, up to its
\* time.Sleep(retryDelay) or its return: where the worker is next, its task,
\* its err and the line it logged
sendEmailWithRetry(t, e) ==
    IF e = <<>>
    THEN [pc |-> "head", task |-> ZeroTask, err |-> <<>>, msg |-> MsgSent]
    ELSE IF RetriesLeft(t)
    THEN [pc |-> "retryDelay", task |-> [t EXCEPT !.Retries = @ + 1], err |-> e,
          msg |-> MsgRequeueing]
    ELSE [pc |-> "errSleep", task |-> ZeroTask, err |-> e, msg |-> MsgMaxRetries]

SendAbandonsOnCancel(w) ==
    /\ pc[w] = "send"
    /\ \E e \in SendEmailErrs(task[w]) :
         LET s == IF cancelled
                  THEN [pc |-> "stopped", task |-> task[w], err |-> <<"context canceled">>,
                        msg |-> MsgRequeueing]
                  ELSE sendEmailWithRetry(task[w], e) IN
         /\ log' = Logged(log, s.msg, Id(task[w]))
         /\ pc' = [pc EXCEPT ![w] = s.pc]
         /\ task' = [task EXCEPT ![w] = s.task]
         /\ err' = [err EXCEPT ![w] = s.err]
         /\ popped' = [popped EXCEPT ![w] = IF s.pc = "retryDelay" THEN @ ELSE ZeroTask]
         /\ held' = [held EXCEPT ![w] = IF s.pc = "retryDelay" THEN @ ELSE 0]
    /\ UNCHANGED <<queue, reqPc, reqTask, reqRet, cancelled, sent, dropped, bulk>>

\* one delivery attempt of the task in flight
Send(w) ==
    /\ pc[w] = "send"
    /\ \E e \in SendEmailErrs(task[w]) :
         LET s == sendEmailWithRetry(task[w], e) IN
         /\ log' = Logged(log, s.msg, Id(task[w]))
         /\ pc' = [pc EXCEPT ![w] = s.pc]
         /\ task' = [task EXCEPT ![w] = s.task]
         /\ err' = [err EXCEPT ![w] = s.err]
         /\ popped' = [popped EXCEPT ![w] = IF s.pc = "retryDelay" THEN @ ELSE ZeroTask]
         /\ held' = [held EXCEPT ![w] = IF s.pc = "retryDelay" THEN @ ELSE 0]
    /\ UNCHANGED <<queue, reqPc, reqTask, reqRet, cancelled, sent, dropped, bulk>>

RequeueHidesOriginalError(w) ==
    /\ pc[w] = "retryDelay"
    /\ \E pushErr \in RPushErrs(cancelled) :
         LET res == EnqueueEmail(queue, log, task[w], pushErr) IN
         /\ queue' = res.queue
         /\ log' = res.log
         /\ sent' = SentAfter(res, task[w])
         /\ IF res.err = <<>>
            THEN /\ pc' = [pc EXCEPT ![w] = "head"]
                 /\ err' = [err EXCEPT ![w] = <<>>]
            ELSE /\ pc' = [pc EXCEPT ![w] = "errSleep"]
                 /\ err' = [err EXCEPT ![w] = <<"failed to requeue email">> \o res.err]
    /\ task' = [task EXCEPT ![w] = ZeroTask]
    /\ popped' = [popped EXCEPT ![w] = ZeroTask]
    /\ held' = [held EXCEPT ![w] = 0]
    /\ UNCHANGED <<reqPc, reqTask, reqRet, cancelled, dropped, bulk>>

\* the retry delay is over: EnqueueEmail(ctx, task) with the worker's context
Requeue(w) ==
    /\ pc[w] = "retryDelay"
    /\ \E pushErr \in RPushErrs(cancelled) :
         LET res == EnqueueEmail(queue, log, task[w], pushErr) IN
         /\ queue' = res.queue
         /\ log' = res.log
         /\ sent' = SentAfter(res, task[w])
         /\ IF res.err = <<>>
            THEN /\ pc' = [pc EXCEPT ![w] = "head"]
                 /\ err' = [err EXCEPT ![w] = <<>>]
            ELSE /\ pc' = [pc EXCEPT ![w] = "errSleep"]
                 /\ err' = [err EXCEPT ![w] = <<"failed to requeue email">> \o res.err
                                               \o <<"original error">> \o err[w]]
    /\ task' = [task EXCEPT ![w] = ZeroTask]
    /\ popped' = [popped EXCEPT ![w] = ZeroTask]
    /\ held' = [held EXCEPT ![w] = 0]
    /\ UNCHANGED <<reqPc, reqTask, reqRet, cancelled, dropped, bulk>>

ErrSleepDoneExits(w) ==
    /\ pc[w] = "errSleep"
    /\ pc' = [pc EXCEPT ![w] = "stopped"]
    /\ err' = [err EXCEPT ![w] = <<>>]
    /\ UNCHANGED <<queue, reqPc, reqTask, reqRet, task, cancelled, log, sent, popped, dropped, held, bulk>>

\* StartWorker logged the error and time.Sleep(queueCheckInterval) is over
ErrSleepDone(w) ==
    /\ pc[w] = "errSleep"
    /\ pc' = [pc EXCEPT ![w] = "head"]
    /\ err' = [err EXCEPT ![w] = <<>>]
    /\ UNCHANGED <<queue, reqPc, reqTask, reqRet, task, cancelled, log, sent, popped, dropped, held, bulk>>

\* ------------------------------------------------------------------- Next
Next ==
    \/ \E r \in Requests : Call(r)
    \/ \E r \in Requests : Enqueue(r)
    \/ Cancel
    \/ \E w \in Workers : LoopHead(w)
    \/ \E w \in Workers : BLPopValue(w)
    \/ \E w \in Workers : BLPopCanceled(w)
    \/ \E w \in Workers : BLPopError(w)
    \/ \E w \in Workers : Send(w)
    \/ \E w \in Workers : Requeue(w)
    \/ \E w \in Workers : ErrSleepDone(w)

Spec == Init /\ [][Next]_vars

\* the process while one bulk request is served: the bulk handler and the worker
BulkNext ==
    \/ BulkCall
    \/ BulkEmail
    \/ BulkRespond
    \/ Cancel
    \/ \E w \in Workers : LoopHead(w)
    \/ \E w \in Workers : BLPopValue(w)
    \/ \E w \in Workers : BLPopCanceled(w)
    \/ \E w \in Workers : BLPopError(w)
    \/ \E w \in Workers : Send(w)
    \/ \E w \in Workers : Requeue(w)
    \/ \E w \in Workers : ErrSleepDone(w)

BulkSpec == Init /\ [][BulkNext]_vars

\* several loop instances on the same list and context: every worker is started
PoolInit ==
    /\ queue \in InitialQueues
    /\ reqPc = [r \in Requests |-> "idle"]
    /\ reqTask = [r \in Requests |-> ZeroTask]
    /\ reqRet = [r \in Requests |-> <<>>]
    /\ pc = [w \in Workers |-> "head"]
    /\ task = [w \in Workers |-> ZeroTask]
    /\ err = [w \in Workers |-> <<>>]
    /\ cancelled = FALSE
    /\ log = [m \in Msgs |-> [i \in Ids |-> 0]]
    /\ sent = [i \in 1..Len(queue) |-> [own |-> FALSE, task |-> ZeroTask, seq |-> 0]]
    /\ popped = [w \in Workers |-> ZeroTask]
    /\ dropped = 0
    /\ held = [w \in Workers |-> 0]
    /\ bulk = NoBulk

PoolSpec == PoolInit /\ [][Next]_vars

\* the process started on a list that holds one such payload
ForeignInit ==
    /\ queue \in {<<p>> : p \in ForeignTasks}
    /\ reqPc = [r \in Requests |-> "idle"]
    /\ reqTask = [r \in Requests |-> ZeroTask]
    /\ reqRet = [r \in Requests |-> <<>>]
    /\ pc = [w \in Workers |-> IF w = 1 THEN "head" ELSE "off"]
    /\ task = [w \in Workers |-> ZeroTask]
    /\ err = [w \in Workers |-> <<>>]
    /\ cancelled = FALSE
    /\ log = [m \in Msgs |-> [i \in Ids |-> 0]]
    /\ sent = [i \in 1..Len(queue) |-> [own |-> FALSE, task |-> ZeroTask, seq |-> 0]]
    /\ popped = [w \in Workers |-> ZeroTask]
    /\ dropped = 0
    /\ held = [w \in Workers |-> 0]
    /\ bulk = NoBulk

ForeignSpec == ForeignInit /\ [][Next]_vars

\* The Go scheduler runs a runnable goroutine, both sleeps end and SendEmail
\* returns (weak fairness of the worker's own steps); a store that can answer
\* the blocked pop again and again eventually does (strong fairness).
Fairness ==
    \A w \in Workers :
        /\ WF_vars(LoopHead(w))
        /\ WF_vars(BLPopCanceled(w))
        /\ SF_vars(BLPopValue(w))
        /\ WF_vars(Send(w))
        /\ WF_vars(Requeue(w))
        /\ WF_vars(ErrSleepDone(w))

FairSpec == Init /\ [][Next]_vars /\ Fairness

\* ============================================================= properties
\* the task a queue entry decodes to
Entry(i) == Unmarshal(queue[i]).task

\* positions of the list that hold request id's task
EntriesOf(id) == {i \in 1..Len(queue) : queue[i].json /\ Id(Entry(i)) = id}
\* some entry holds it
InQueue(id) == EntriesOf(id) # {}

\* workers holding request id's task between its pop and the end of its iteration
Holding(id) == {w \in Workers : pc[w] \in {"send", "retryDelay"} /\ Id(task[w]) = id}
\* some worker holds it
InFlight(id) == Holding(id) # {}

\* failed and successful SendEmail calls for a task, as the logger recorded them
Fails(id) == log[MsgRequeueing][id] + log[MsgMaxRetries][id]
\* finished SendEmail calls for a task
Attempts(id) == log[MsgSent][id] + Fails(id)

\* the request's own EnqueueEmail call returned nil
Accepted(r) == reqPc[r] = "done" /\ reqRet[r] = <<>>
\* EnqueueEmail calls of the worker for the task that returned nil
Requeues(id) == log[MsgEnqueued][id] - (IF Accepted(id) THEN 1 ELSE 0)

\* worker w ends a delivery attempt in this step without success
FailStep(w) ==
    /\ pc[w] = "send"
    /\ pc'[w] # "send"
    /\ log'[MsgSent] = log[MsgSent]

\* ------------------------------------------------------------------- C1
\* C1 as stated: a task none of whose attempts succeeded is not in the
\* queue once it has failed three times (never re-enqueued after the third
\* failure), and it has at most one terminal-failure report.
C1_AsStated ==
    \A id \in Requests :
        /\ log[MsgMaxRetries][id] <= 1
        /\ (log[MsgSent][id] = 0 /\ Fails(id) >= 3) => ~InQueue(id)

\* C1 (amended): a task that failed on every attempt through the one made
\* with attemptCount == 3 (its fourth failure) has been enqueued four times
\* and never again, is neither in the queue nor in flight, and has exactly
\* one terminal-failure report; no task ever has more than one.
C1_NoRequeueAfterCeiling ==
    \A id \in Requests :
        /\ log[MsgMaxRetries][id] <= 1
        /\ Fails(id) = maxRetries + 1 =>
              /\ log[MsgMaxRetries][id] = 1
              /\ log[MsgEnqueued][id] = maxRetries + 1
              /\ ~InQueue(id)
              /\ ~InFlight(id)

\* reached: the case of C1 has happened
C1_Witness ==
    \E id \in Requests : Fails(id) = maxRetries + 1 /\ log[MsgSent][id] = 0

\* ------------------------------------------------------------------- C2
\* C2: every queue entry and every in-flight copy of a request's task has
\* attemptCount in 0..3; the task is requeued at most 3 times and delivery
\* is attempted at most 4 times.
C2_AttemptCountBounded ==
    \A id \in Requests :
        /\ \A i \in EntriesOf(id) : Entry(i).Retries \in 0..maxRetries
        /\ \A w \in Holding(id) : task[w].Retries \in 0..maxRetries
        /\ Requeues(id) <= maxRetries
        /\ Attempts(id) <= maxRetries + 1

\* reached: the case of C2 has happened
C2_Witness ==
    \E id \in Requests : Requeues(id) = maxRetries /\ Attempts(id) = maxRetries + 1

\* ------------------------------------------------------------------- C3
\* the step in which the attempt made with attemptCount 3 fails
C3_Step ==
    \A w \in Workers :
        (FailStep(w) /\ task[w].Retries = maxRetries) =>
            /\ queue' = queue
            /\ log' = Logged(log, MsgMaxRetries, Id(task[w]))
            /\ pc'[w] = "errSleep"
            /\ err'[w] \in SendEmailErrs(task[w]) \ {<<>>}

\* a task with a terminal report is nowhere
C3_Dropped ==
    \A id \in Requests : log[MsgMaxRetries][id] >= 1 => ~InQueue(id) /\ ~InFlight(id)

\* C3: when delivery fails for a task in flight with attemptCount 3, the
\* step appends nothing, logs the terminal failure once, and
\* processNextTask returns the delivery error (the worker is in its error
\* pause holding it); a task with a terminal report is in no queue state
\* and in no worker afterwards.
C3_TerminalFailure == [][C3_Step]_vars /\ []C3_Dropped

\* reached: the case of C3 has happened
C3_Witness ==
    \E w \in Workers, id \in Requests :
        /\ pc[w] = "errSleep"
        /\ err[w] = <<"delivery failed">>
        /\ log[MsgMaxRetries][id] = 1
        /\ queue = <<>>

\* ------------------------------------------------------------------- C4
\* the step in which an attempt made with attemptCount < 3 fails
C4_FailStep ==
    \A w \in Workers :
        (FailStep(w) /\ task[w].Retries < maxRetries) =>
            /\ queue' = queue
            /\ pc'[w] = "retryDelay"

\* the step in which the requeue succeeds
C4_RequeueStep ==
    \A w \in Workers :
        (pc[w] = "retryDelay" /\ pc'[w] = "head") =>
            /\ Len(queue') = Len(queue) + 1
            /\ SubSeq(queue', 1, Len(queue)) = queue
            /\ LET new == Unmarshal(queue'[Len(queue')]) IN
                 /\ new.err = <<>>
                 /\ popped[w].Retries < maxRetries
                 /\ new.task = [popped[w] EXCEPT !.Retries = @ + 1]

\* C4: when delivery fails for a dequeued task with attemptCount < 3 the
\* failing step appends nothing, and the requeue that succeeds appends
\* exactly one entry at the tail, which decodes to the dequeued task with
\* attemptCount one higher and the same recipient, subject, templateName
\* and data.
C4_RequeueIncrements == [][C4_FailStep /\ C4_RequeueStep]_vars

\* reached: the case of C4 has happened
C4_Witness ==
    \E id \in Requests, i \in 1..Len(queue) :
        /\ i \in EntriesOf(id)
        /\ Entry(i).Retries = 2
        /\ log[MsgRequeueing][id] = 2
        /\ Len(queue) >= 2

\* ------------------------------------------------------------------- C5
\* the step in which SendEmail succeeds for a task that failed fewer than 3 times
C5_SuccessStep ==
    \A id \in Requests :
        (log'[MsgSent][id] # log[MsgSent][id] /\ Fails(id) < maxRetries) =>
            /\ log[MsgSent][id] = 0
            /\ log'[MsgSent][id] = 1
            /\ queue' = queue
            /\ \E w \in Workers :
                 /\ pc[w] = "send"
                 /\ Id(task[w]) = id
                 /\ task[w].Retries = Fails(id)
                 /\ pc'[w] = "head"

\* a delivered task has one success report and is nowhere
C5_Delivered ==
    \A id \in Requests :
        /\ log[MsgSent][id] <= 1
        /\ (log[MsgSent][id] = 1 /\ Fails(id) < maxRetries) => ~InQueue(id) /\ ~InFlight(id)

\* C5: a task that has failed k < 3 times and then succeeds is delivered
\* with attemptCount == k; that success is its only success report, the
\* step requeues nothing, and afterwards the task is in no queue entry and
\* in no worker.
C5_SuccessAfterFailures == [][C5_SuccessStep]_vars /\ []C5_Delivered

\* reached: the case of C5 has happened
C5_Witness ==
    \E id \in Requests : log[MsgSent][id] = 1 /\ Fails(id) = 2

\* ------------------------------------------------------------------- C6
\* a required field of the task is empty
HasEmptyField(t) == t.To = "" \/ t.Subject = "" \/ t.TemplateName = ""

\* the step in which EnqueueEmail runs on a task with an empty field
C6_Step ==
    /\ \A r \in Requests :
         (reqPc[r] = "called" /\ reqPc'[r] = "done" /\ HasEmptyField(reqTask'[r])) =>
             /\ Len(reqRet'[r]) = 2
             /\ reqRet'[r][1] = "invalid email task"
             /\ queue' = queue
    /\ \A w \in Workers :
         (pc[w] = "retryDelay" /\ pc'[w] # "retryDelay" /\ HasEmptyField(task[w])) =>
             /\ pc'[w] = "errSleep"
             /\ err'[w][2] = "invalid email task"
             /\ queue' = queue

\* C6: an EnqueueEmail call (a request's, or the worker's requeue) with an
\* empty recipient, subject or templateName returns the validation error
\* and leaves the queue as it was.
C6_InvalidRejected == [][C6_Step]_vars

\* reached: the case of C6 has happened
C6_Witness ==
    \E r \in Requests :
        /\ reqPc[r] = "done"
        /\ reqTask[r].Subject = ""
        /\ reqRet[r] = <<"invalid email task", "email subject is required">>
        /\ queue # <<>>

\* ------------------------------------------------------------------- C7
\* the step in which an entry written by EnqueueEmail is popped
C7_PopStep ==
    (Len(queue') < Len(queue) /\ Head(sent).own) =>
        \E w \in Workers :
            /\ pc[w] = "pop"
            /\ pc'[w] = "send"
            /\ task'[w] = Head(sent).task

\* the history is parallel to the list; retries is on the wire iff it is not 0
C7_Wire ==
    /\ Len(sent) = Len(queue)
    /\ \A i \in 1..Len(queue) :
         sent[i].own => ("retries" \in DOMAIN queue[i].obj <=> sent[i].task.Retries # 0)

\* C7: the pop of an entry that EnqueueEmail appended decodes without error
\* to the task EnqueueEmail was given: recipient, subject, templateName,
\* data and attemptCount are equal; an attemptCount of 0 is not on the wire.
C7_RoundTrip == [][C7_PopStep]_vars /\ []C7_Wire

\* reached: the case of C7 has happened
C7_Witness ==
    \E w \in Workers, id \in Requests :
        /\ pc[w] = "send"
        /\ task[w].Retries = 0
        /\ Id(task[w]) # id
        /\ Id(task[w]) \in Requests
        /\ log[MsgRequeueing][id] = 3

\* ------------------------------------------------------------------- C8
\* number of entries of q that do not decode
Malformed(q) == Cardinality({i \in 1..Len(q) : ~q[i].json})

\* the step in which a payload that does not decode is popped
C8_Step ==
    \A w \in Workers :
        (pc[w] = "pop" /\ pc'[w] # "pop" /\ Len(queue') < Len(queue) /\ ~Head(queue).json) =>
            /\ queue' = Tail(queue)
            /\ pc'[w] = "errSleep"
            /\ err'[w] = <<"task deserialization error">>
            /\ dropped' = dropped + 1

\* no step adds a malformed entry
C8_NotReappended == Malformed(queue') <= Malformed(queue)

\* the error pause ends at the loop head
C8_PauseEnds == \A w \in Workers : pc[w] = "errSleep" => pc'[w] \in {"errSleep", "head"}

\* a valid task behind a dropped payload is attempted
C8_NextProcessed ==
    \A id \in Requests : (dropped >= 1 /\ InQueue(id)) ~> (InFlight(id) \/ cancelled)

\* C8: the pop of a payload that does not decode removes it, leaves the
\* worker running (in its error pause, with the deserialization error);
\* no step of the program adds a malformed entry to the queue; and a
\* valid task that is in the queue once a malformed payload was dropped is
\* attempted, unless the worker is cancelled.
C8_MalformedDropped ==
    [][C8_Step /\ C8_NotReappended /\ C8_PauseEnds]_vars /\ C8_NextProcessed

\* reached: the case of C8 has happened
C8_Witness ==
    \E w \in Workers :
        /\ dropped >= 1
        /\ pc[w] = "send"
        /\ Id(task[w]) \in Requests
        /\ task[w].Retries = 0
        /\ ~cancelled

\* ------------------------------------------------------------------- C9
\* workers attempting delivery of request id's task
AtSend(id) == Cardinality({w \in Workers : pc[w] = "send" /\ Id(task[w]) = id})

\* EnqueueEmail calls that return nil in this step
NilReturns ==
    Cardinality({r \in Requests : reqPc[r] = "called" /\ reqPc'[r] = "done" /\ reqRet'[r] = <<>>})
    + Cardinality({w \in Workers : pc[w] = "retryDelay" /\ pc'[w] = "head"})
\* EnqueueEmail calls that return an error in this step
ErrReturns ==
    Cardinality({r \in Requests : reqPc[r] = "called" /\ reqPc'[r] = "done" /\ reqRet'[r] # <<>>})
    + Cardinality({w \in Workers : pc[w] = "retryDelay" /\ pc'[w] = "errSleep"})

\* appends and returns of EnqueueEmail within one step
C9_Step ==
    /\ (NilReturns = 1) <=> (Len(queue') = Len(queue) + 1 /\ sent'[Len(sent')].own)
    /\ NilReturns <= 1
    /\ ErrReturns >= 1 => queue' = queue
    /\ Len(queue') >= Len(queue) => SubSeq(queue', 1, Len(queue)) = queue

\* per task: entries present + entries popped = successful enqueues
C9_Conservation ==
    /\ \A id \in Requests :
         /\ Cardinality(EntriesOf(id)) + AtSend(id) + Attempts(id) = log[MsgEnqueued][id]
         /\ Accepted(id) => log[MsgEnqueued][id] >= 1
         /\ (reqPc[id] # "done" \/ reqRet[id] # <<>>) => log[MsgEnqueued][id] = 0
    /\ \A i \in 1..Len(queue) : sent[i].own => queue[i].json /\ Entry(i) = sent[i].task

\* C9: in every step the number of entries EnqueueEmail appends is the number
\* of its calls that return nil; a call that returns an error appends nothing;
\* and in every state, for each request's task, the entries in the queue plus
\* the entries popped (in an attempt, or attempted) are as many as the
\* successful enqueues, and each entry holds the task it was given.
C9_AppendsEqualSuccesses == [][C9_Step]_vars /\ []C9_Conservation

\* reached: the case of C9 has happened
C9_Witness ==
    \E r1, r2 \in Requests :
        /\ Accepted(r1)
        /\ reqPc[r2] = "done"
        /\ reqRet[r2] = <<"failed to enqueue email task", "store error">>
        /\ EntriesOf(r1) # {}
        /\ log[MsgEnqueued][r1] = 2

\* ------------------------------------------------------------------ C10
\* how a worker stops, and what a stopped worker does
C10_Step ==
    /\ \A w \in Workers :
         /\ (pc[w] # "stopped" /\ pc'[w] = "stopped") => (cancelled /\ pc[w] = "head")
         /\ pc[w] = "stopped" => (pc'[w] = "stopped" /\ task'[w] = task[w])
    /\ Len(queue') < Len(queue) => \E w \in Workers : pc[w] = "pop" /\ pc'[w] # "pop"

\* after cancellation every started worker stops
C10_Stops == \A w \in Workers : (cancelled /\ pc[w] # "off") ~> (pc[w] = "stopped")

\* C10: the worker starts running; it stops only at the loop head with the
\* context cancelled; a stopped worker stays stopped and takes nothing from
\* the queue; once the context is cancelled every started worker eventually
\* stops, wherever it was.
C10_Lifecycle == pc[1] = "head" /\ [][C10_Step]_vars /\ C10_Stops

\* reached: the case of C10 has happened
C10_Witness ==
    \E w \in Workers : pc[w] = "stopped" /\ cancelled /\ queue # <<>>

\* ------------------------------------------------------------------ C11
\* the errors of EnqueueEmail that carry a failure of the store's append
StoreFailures ==
    {<<"failed to enqueue email task">> \o e : e \in {<<"store error">>, <<"context canceled">>}}

\* one call of EnqueueEmail on task t returning ret, from list q to list q2
C11_Call(t, ret, q, q2) ==
    /\ (ret = <<>>) <=> (q2 = Append(q, Marshal(t)))
    /\ ret # <<>> => q2 = q
    /\ (validateEmailTask(t) = <<>> /\ q2 = q) => ret \in StoreFailures

\* C11: a call of EnqueueEmail (a request's, or the worker's requeue)
\* returns nil if and only if the list afterwards is the list before with
\* exactly the serialized task appended at the tail; a valid task that was
\* not appended is answered with an error that carries the store's failure,
\* and every call that returns an error leaves the list unchanged.
C11_EnqueueContract ==
    [][/\ \A r \in Requests :
            (reqPc[r] = "called" /\ reqPc'[r] = "done") =>
                C11_Call(reqTask'[r], reqRet'[r], queue, queue')
       /\ \A w \in Workers :
            (pc[w] = "retryDelay" /\ pc'[w] # "retryDelay") =>
                /\ C11_Call(task[w], IF pc'[w] = "head" THEN <<>> ELSE SubSeq(err'[w], 2, 3),
                            queue, queue')
                /\ pc'[w] \in {"head", "errSleep"}]_vars

\* reached: the case of C11 has happened
C11_Witness ==
    \E r1, r2 \in Requests :
        /\ Accepted(r1)
        /\ Len(queue) >= 2
        /\ queue[Len(queue)] = Marshal(reqTask[r1])
        /\ reqPc[r2] = "done"
        /\ reqRet[r2] \in StoreFailures

\* ------------------------------------------------------------------ C12
\* workers in the retry delay of request id's task
Delaying(id) == {w \in Workers : pc[w] = "retryDelay" /\ Id(task[w]) = id}

\* a requeue of request id's task has failed: it was sent to the requeue
\* more often than requeues succeeded or are still pending
Lost(id) == log[MsgRequeueing][id] > Requeues(id) + Cardinality(Delaying(id))

\* the step in which the requeue of a failed task fails
C12_Step ==
    \A w \in Workers :
        (pc[w] = "retryDelay" /\ pc'[w] = "errSleep") =>
            /\ popped[w].Retries < maxRetries
            /\ err[w] \in SendEmailErrs(popped[w]) \ {<<>>}
            /\ Len(err'[w]) = 4 + Len(err[w])
            /\ err'[w][1] = "failed to requeue email"
            /\ err'[w][2] \in {"invalid email task", "failed to enqueue email task"}
            /\ err'[w][4] = "original error"
            /\ SubSeq(err'[w], 5, Len(err'[w])) = err[w]
            /\ queue' = queue
            /\ task'[w] = ZeroTask
            /\ \A id \in Requests : Id(task[w]) = id => Lost(id)'

\* a lost task stays lost and is not attempted again
C12_Stays ==
    \A id \in Requests :
        Lost(id) => Lost(id)' /\ Attempts(id)' = Attempts(id)

\* a lost task is nowhere and has no final report
C12_Gone ==
    \A id \in Requests :
        Lost(id) =>
            /\ ~InQueue(id)
            /\ ~InFlight(id)
            /\ log[MsgSent][id] = 0
            /\ log[MsgMaxRetries][id] = 0

\* C12: when delivery failed for a task with attemptCount < 3 and its
\* requeue fails, the worker's error is the compound error: the requeue
\* failure wrapping EnqueueEmail's error, followed by the original delivery
\* error; the step appends nothing and the worker no longer holds the task.
\* From then on the task is in no queue entry and in no worker, it was not
\* delivered, and no further attempt is made for it.
C12_CompoundErrorTaskLost == [][C12_Step /\ C12_Stays]_vars /\ []C12_Gone

\* reached: the case of C12 has happened
C12_Witness ==
    \E w \in Workers, id \in Requests :
        /\ pc[w] = "errSleep"
        /\ err[w] = <<"failed to requeue email", "failed to enqueue email task",
                      "store error", "original error", "delivery failed">>
        /\ Accepted(id)
        /\ Lost(id)
        /\ log[MsgRequeueing][id] = 2

\* ------------------------------------------------------------------ C13
\* the serial numbers of the entries in the list
Serials(h) == {h[i].seq : i \in 1..Len(h)}

\* the list holds its entries in the order they were appended
C13_InOrder ==
    \A i, j \in 1..Len(sent) : i < j => sent[i].seq < sent[j].seq

\* a pop takes the entry that was appended first
C13_PopStep ==
    Len(queue') < Len(queue) =>
        /\ Len(queue') = Len(queue) - 1
        /\ \E s \in Serials(sent) :
             /\ Serials(sent') = Serials(sent) \ {s}
             /\ \A s2 \in Serials(sent') : s < s2
             /\ \A w \in Workers : pc'[w] = "send" /\ pc[w] # "send" => held'[w] = s

\* an append (a request's, or a requeue) goes behind every entry present
C13_AppendStep ==
    Len(queue') > Len(queue) =>
        /\ SubSeq(sent', 1, Len(sent)) = sent
        /\ Len(sent') = Len(sent) + 1
        /\ \A s \in Serials(sent) : s < sent'[Len(sent')].seq
        /\ \A w \in Workers :
             (pc[w] = "retryDelay" /\ pc'[w] = "head") =>
                 /\ held[w] < sent'[Len(sent')].seq
                 /\ Id(sent'[Len(sent')].task) = Id(task[w])

\* a task on its first attempt was enqueued before every first-attempt task
\* still waiting, and every waiting entry was appended after the one in flight
C13_FirstAttempts ==
    \A w \in Workers :
        pc[w] \in {"send", "retryDelay"} =>
            \A i \in 1..Len(sent) : held[w] < sent[i].seq

\* C13: with the single worker main starts, the list holds its entries in
\* append order and every pop takes the one appended first, so entries are
\* popped in append order and a task that does not fail is attempted, and
\* delivered, before every task enqueued after it; a requeue appends behind
\* every entry present, all of which are popped before the retried task.
C13_Fifo ==
    [][C13_PopStep /\ C13_AppendStep]_vars /\ [](C13_InOrder /\ C13_FirstAttempts)

\* reached: the case of C13 has happened
C13_Witness ==
    \E w \in Workers, id \in Requests :
        /\ pc[w] = "send"
        /\ Id(task[w]) \in Requests \ {id}
        /\ task[w].Retries = 0
        /\ held[w] = 2
        /\ Len(queue) = 1
        /\ Entry(1).Retries = 1
        /\ Id(Entry(1)) = id
        /\ sent[1].seq = 3

\* ------------------------------------------------------------------ C14
\* the positions of a worker between a pop and the end of that iteration
Busy == {"send", "retryDelay", "errSleep"}

\* who pops, and how a worker moves through one iteration
C14_Step ==
    /\ Len(queue') < Len(queue) =>
         \E w \in Workers :
             /\ pc[w] = "pop"
             /\ pc'[w] \in {"send", "errSleep"}
             /\ queue' = Tail(queue)
             /\ \A w2 \in Workers \ {w} : pc'[w2] = pc[w2] /\ task'[w2] = task[w2]
    /\ \A w \in Workers :
         /\ pc[w] \in Busy => Len(queue') >= Len(queue)
         /\ (pc[w] # "pop" /\ pc'[w] = "pop") => pc[w] = "head"
         /\ pc[w] = "send" => pc'[w] \in {"send", "retryDelay", "head", "errSleep"}
         /\ pc[w] = "retryDelay" => pc'[w] \in {"retryDelay", "head", "errSleep"}
         /\ pc[w] = "errSleep" => pc'[w] \in {"errSleep", "head"}
         /\ (pc[w] \in {"send", "retryDelay"} /\ pc'[w] \in {"send", "retryDelay"}) =>
                Id(task'[w]) = Id(task[w]) /\ held'[w] = held[w]

\* a worker that is not in an attempt or its retry delay holds no task
C14_HoldsNothing ==
    \A w \in Workers :
        pc[w] \notin {"send", "retryDelay"} => task[w] = ZeroTask /\ held[w] = 0

\* C14: an entry is popped only by a worker that is blocked in the pop,
\* which it enters only from the loop head; from the pop until the loop
\* head is reached again (through the attempt, the retry delay and the
\* requeue, or through the error pause) the list does not shrink, and the
\* worker holds the one task it popped, or none.
C14_OneInFlight == [][C14_Step]_vars /\ []C14_HoldsNothing

\* reached: the case of C14 has happened
C14_Witness ==
    \E w \in Workers, id \in Requests :
        /\ pc[w] = "errSleep"
        /\ err[w] = <<"delivery failed">>
        /\ InQueue(id)
        /\ log[MsgRequeueing][id] = 0

\* ------------------------------------------------------------------ C15
\* worker w is in the pause that follows a failed pop
PopFailed(w) == pc[w] = "errSleep" /\ err[w] = <<"queue retrieval error", "store error">>

\* the step in which the pop fails, and the steps that follow it
C15_Step ==
    \A w \in Workers :
        /\ (pc[w] = "pop" /\ pc'[w] # "pop" /\ Len(queue') = Len(queue)) =>
               \/ cancelled /\ pc'[w] = "head"
               \/ /\ PopFailed(w)'
                  /\ queue' = queue
                  /\ log' = log
                  /\ task'[w] = ZeroTask
        /\ PopFailed(w) =>
               /\ pc'[w] \in {"errSleep", "head"}
               /\ task'[w] = ZeroTask
               /\ \/ queue' = queue /\ log' = log
                  \/ \E r \in Requests : reqPc[r] = "called" /\ reqPc'[r] = "done"
        /\ (pc[w] = "head" /\ pc'[w] # "head") => pc'[w] = (IF cancelled THEN "stopped" ELSE "pop")

\* the pop can fail whenever the worker is in it, the pause always ends, and
\* a worker that is not cancelled is never stopped
C15_KeepsRetrying ==
    \A w \in Workers :
        /\ pc[w] = "pop" => ENABLED BLPopError(w)
        /\ pc[w] = "errSleep" => ENABLED ErrSleepDone(w)
        /\ pc[w] = "head" => ENABLED LoopHead(w)
        /\ pc[w] = "stopped" => cancelled

\* C15: a pop that fails with a store error leaves the list and the log of
\* attempts and requeues as they were; the worker holds the error in its
\* pause, holds no task, and during the pause only a request's own enqueue
\* changes the list; after the pause the worker is at the loop head, from
\* where (unless cancelled) it is in the pop again.  Nothing bounds the
\* number of such rounds, and none of them stops the worker.
C15_PopStoreError == [][C15_Step]_vars /\ []C15_KeepsRetrying

\* reached: the case of C15 has happened
C15_Witness ==
    \E w \in Workers, id \in Requests :
        /\ PopFailed(w)
        /\ InQueue(id)
        /\ log[MsgRequeueing][id] >= 1
        /\ ~cancelled

\* ------------------------------------------------------------------ C16
\* the first words of the errors processNextTask returns
IterationErrors ==
    {"queue retrieval error", "invalid queue result", "task deserialization error",
     "failed to requeue email", "delivery failed",
     "recipient email address cannot be empty", "email subject cannot be empty",
     "email template name cannot be empty"}

\* where each position of an iteration leads
C16_Step ==
    \A w \in Workers :
        /\ (pc[w] = "pop" /\ pc'[w] # "pop") => pc'[w] \in {"send", "errSleep", "head"}
        /\ (pc[w] = "send" /\ pc'[w] # "send") => pc'[w] \in {"retryDelay", "errSleep", "head"}
        /\ (pc[w] = "retryDelay" /\ pc'[w] # "retryDelay") => pc'[w] \in {"errSleep", "head"}
        /\ (pc[w] = "errSleep" /\ pc'[w] # "errSleep") => pc'[w] = "head"
        /\ (pc[w] # "stopped" /\ pc'[w] = "stopped") => (pc[w] = "head" /\ cancelled)

\* the worker is in the loop, and an iteration that failed holds its error
C16_InLoop ==
    /\ \A w \in Workers :
         /\ pc[w] \in {"off", "head", "pop", "send", "retryDelay", "errSleep", "stopped"}
         /\ pc[w] = "errSleep" => (err[w] # <<>> /\ err[w][1] \in IterationErrors)
         /\ pc[w] = "stopped" => cancelled
    /\ Decode(<<emailQueue>>).pc = "errSleep"
    /\ Decode(<<emailQueue>>).err = <<"invalid queue result">>

\* every iteration that took something from the pop ends at the loop head
C16_Returns == \A w \in Workers : (pc[w] \in Busy) ~> (pc[w] = "head")

\* C16: whatever an iteration meets (a delivery, a requeue, a terminal
\* failure, a compound requeue error, a payload that does not decode, a pop
\* result that is too short, a store error, a cancelled pop) its next
\* position is inside the loop, and the worker is at the loop head again
\* after it; the worker is stopped only from the loop head and only when the
\* context is cancelled.
C16_NeverCrashes == [][C16_Step]_vars /\ []C16_InLoop /\ C16_Returns

\* reached: the case of C16 has happened
C16_Witness ==
    \E w \in Workers, id1, id2 \in Requests :
        /\ pc[w] = "head"
        /\ ~cancelled
        /\ dropped = 1
        /\ log[MsgMaxRetries][id1] = 1
        /\ Lost(id2)
        /\ queue = <<>>

\* ------------------------------------------------------------------ C17
\* the final outcomes request id's task has had
Outcomes(id) ==
    (IF log[MsgSent][id] >= 1 THEN {"delivered"} ELSE {})
    \cup (IF log[MsgMaxRetries][id] >= 1 THEN {"dropped"} ELSE {})
    \cup (IF Lost(id) THEN {"lost"} ELSE {})

\* request id's task has left the system with one outcome
Left(id) ==
    /\ ~InQueue(id)
    /\ ~InFlight(id)
    /\ Cardinality(Outcomes(id)) = 1

\* everything accepted has left the system and the list is empty
Settled == queue = <<>> /\ \A id \in Requests : Accepted(id) => Left(id)

\* no task is attempted more than four times, however the run goes
C17_Bounded == \A id \in Requests : Attempts(id) <= maxRetries + 1

\* C17: under fair scheduling, with a store that answers the pop in the end
\* and finitely many requests, from some point on every task EnqueueEmail
\* accepted is in no entry and no worker, with exactly one outcome
\* (delivered, dropped at the ceiling, or lost by a failed requeue), and the
\* list is empty for good, unless the worker is cancelled; no task is
\* attempted more than four times.
C17_Progress == <>[](Settled \/ cancelled) /\ []C17_Bounded

\* reached: the case of C17 has happened
C17_Witness ==
    \E w \in Workers, id1, id2 \in Requests :
        /\ pc[w] = "pop"
        /\ ~cancelled
        /\ queue = <<>>
        /\ Outcomes(id1) = {"delivered"}
        /\ Fails(id1) >= 1
        /\ Outcomes(id2) = {"dropped"}
        /\ Left(id1)
        /\ Left(id2)

\* ------------------------------------------------------------------ C18
\* the words of error e
Words(e) == {e[i] : i \in 1..Len(e)}

\* C18 as stated: the cancellation shows at the loop head and in the pop
\* only, so no step of an attempt (its requeue included) ever holds the
\* cancellation as its error, and a stopped worker has no task in flight.
C18_AsStated ==
    \A w \in Workers :
        /\ "context canceled" \notin Words(err[w])
        /\ pc[w] = "stopped" => task[w] = ZeroTask /\ held[w] = 0

\* what the cancellation and the worker do to each other within a step
C18_Step ==
    /\ (~cancelled /\ cancelled') => (pc' = pc /\ task' = task /\ queue' = queue /\ log' = log)
    /\ \A w \in Workers :
         /\ (pc[w] # "stopped" /\ pc'[w] = "stopped") => (pc[w] = "head" /\ cancelled)
         /\ (pc[w] = "pop" /\ pc'[w] = "head") => cancelled
         /\ (pc[w] = "send" /\ pc'[w] # "send") =>
                /\ pc'[w] \in {"retryDelay", "errSleep", "head"}
                /\ err'[w] \in SendEmailErrs(task[w])
                /\ "context canceled" \notin Words(err'[w])
         /\ (pc[w] = "retryDelay" /\ pc'[w] # "retryDelay") =>
                \/ pc'[w] = "head" /\ ~cancelled /\ Len(queue') = Len(queue) + 1
                \/ pc'[w] = "errSleep" /\ err'[w][1] = "failed to requeue email"
         /\ "context canceled" \in Words(err'[w]) =>
                \/ err'[w] = err[w]
                \/ pc[w] = "retryDelay" /\ cancelled

\* a stopped worker has no task in flight
C18_StoppedIdle ==
    \A w \in Workers :
        pc[w] = "stopped" => (task[w] = ZeroTask /\ held[w] = 0 /\ popped[w] = ZeroTask)

\* C18 (amended): the cancellation itself moves no worker; the loop leaves
\* only at the loop head, and a blocked pop returns to it; an attempt that
\* has started ends with SendEmail's own outcome and its retry delay is
\* followed by the requeue call, cancelled or not, so a stopped worker has
\* no task in flight.  The requeue call is the one step of an attempt that
\* sees the cancellation: made with the cancelled context it appends nothing
\* and returns the cancellation as its error.
C18_CancelOnlyBetweenTasks == [][C18_Step]_vars /\ []C18_StoppedIdle

\* reached: the case of C18 has happened
C18_Witness ==
    \E w \in Workers :
        /\ cancelled
        /\ pc[w] = "errSleep"
        /\ "context canceled" \in Words(err[w])
        /\ popped[w] = ZeroTask

\* ------------------------------------------------------------------ C19
\* worker w ends an iteration in this step: processNextTask returns
Returns(w) ==
    /\ pc[w] \in {"pop", "send", "retryDelay"}
    /\ pc'[w] \in {"head", "errSleep"}

\* processNextTask returns an error in this step, told by what the step did
ReturnsError(w) ==
    \/ pc[w] = "pop" /\ queue' = queue /\ err'[w] = <<"queue retrieval error", "store error">>
    \/ pc[w] = "pop" /\ Len(queue') < Len(queue) /\ Unmarshal(Head(queue)).err # <<>>
    \/ pc[w] = "send" /\ log'[MsgMaxRetries] # log[MsgMaxRetries]
    \/ pc[w] = "retryDelay" /\ queue' = queue

\* processNextTask returns nil in this step, told by what the step did
ReturnsNil(w) ==
    \/ pc[w] = "pop" /\ cancelled /\ queue' = queue /\ err'[w] = <<>>
    \/ pc[w] = "send" /\ log'[MsgSent] # log[MsgSent]
    \/ pc[w] = "retryDelay" /\ Len(queue') = Len(queue) + 1

\* the pause is taken after the iterations that return an error, and only those
C19_Step ==
    \A w \in Workers :
        /\ Returns(w) =>
               /\ ReturnsError(w) <=> pc'[w] = "errSleep"
               /\ ReturnsNil(w) <=> pc'[w] = "head"
               /\ pc'[w] = "errSleep" <=> err'[w] # <<>>
        /\ (pc[w] # "errSleep" /\ pc'[w] = "errSleep") => Returns(w)
        /\ (pc[w] = "errSleep" /\ pc'[w] # "errSleep") => (pc'[w] = "head" /\ err'[w] = <<>>)

\* a pausing worker holds the error that was returned; at the loop head and
\* in the pop there is none
C19_ErrorHeld ==
    \A w \in Workers :
        /\ pc[w] = "errSleep" => err[w] # <<>>
        /\ pc[w] \in {"head", "pop", "stopped"} => err[w] = <<>>

\* C19: the iteration ends in the error pause exactly when it ends with a
\* failed pop, a payload that does not decode, a terminal delivery failure
\* or a failed requeue, which are the returns with a non-nil error; it ends
\* at the loop head, without the pause, exactly when it ends with a
\* delivery, a requeue that succeeded or a cancelled pop.
C19_PauseIffError == [][C19_Step]_vars /\ []C19_ErrorHeld

\* reached: the case of C19 has happened
C19_Witness ==
    \E w \in Workers, id1, id2 \in Requests :
        /\ pc[w] = "head"
        /\ log[MsgMaxRetries][id1] = 1
        /\ queue # <<>>
        /\ Id(Entry(Len(queue))) = id2
        /\ Entry(Len(queue)).Retries = 1
        /\ log[MsgRequeueing][id2] = 1

\* ------------------------------------------------------------------ C20
\* the task of the k-th entry the bulk request appended
BulkEntry(k) == Unmarshal(bulk.appended[k]).task

\* the lists and the appended entries, for the emails handled so far
C20_Lists ==
    /\ Len(bulk.emails) <= bulk.n
    /\ Len(bulk.success) + Len(bulk.failed) = Len(bulk.emails)
    /\ Len(bulk.appended) = Len(bulk.success)
    /\ \A k \in 1..Len(bulk.appended) :
         /\ bulk.success[k] = BulkEntry(k).To
         /\ Id(BulkEntry(k)) \in 1..Len(bulk.emails)
         /\ bulk.appended[k] = Marshal(TaskOf(bulk.emails[Id(BulkEntry(k))]))
         /\ \A j \in 1..(k - 1) : Id(BulkEntry(j)) < Id(BulkEntry(k))
    /\ \A i, j \in 1..Len(queue) :
         (i < j /\ queue[i].json /\ queue[j].json /\ Entry(i).Retries = 0 /\ Entry(j).Retries = 0
          /\ Id(Entry(i)) # 0 /\ Id(Entry(j)) # 0) => Id(Entry(i)) < Id(Entry(j))

\* the response counts every email of the request once
C20_Response ==
    bulk.pc = "done" =>
        /\ Len(bulk.emails) = bulk.n
        /\ bulk.resp.successCount = Len(bulk.appended)
        /\ bulk.resp.successEmails = bulk.success
        /\ bulk.resp.status \in {202, 207}
        /\ bulk.resp.status = 202 => (bulk.failed = <<>> /\ bulk.resp.successCount = bulk.n)
        /\ bulk.resp.status = 207 =>
               /\ bulk.resp.failedCount >= 1
               /\ bulk.resp.failedEmails = bulk.failed
               /\ bulk.resp.successCount + bulk.resp.failedCount = bulk.n

\* one pass of the loop handles one email: it joins one list, and the list
\* grows by its entry exactly when it joins the success list; the loop goes
\* on over all emails of the request whatever happened to the earlier ones
C20_Step ==
    /\ Len(bulk'.emails) # Len(bulk.emails) =>
         LET req == bulk'.emails[Len(bulk'.emails)] IN
         /\ Len(bulk'.emails) = Len(bulk.emails) + 1
         /\ \/ /\ bulk'.success = Append(bulk.success, TrimSpace(req.To))
               /\ bulk'.failed = bulk.failed
               /\ queue' = Append(queue, Marshal(TaskOf(req)))
            \/ /\ bulk'.failed = Append(bulk.failed, req.To)
               /\ bulk'.success = bulk.success
               /\ queue' = queue
    /\ bulk.pc = "loop" => bulk'.n = bulk.n
    /\ (bulk.pc = "loop" /\ bulk'.pc = "done") => Len(bulk.emails) = bulk.n

\* C20: every email of a bulk request joins exactly one of successEmails and
\* failedEmails, so the counts add up to the number of emails; the entries
\* the request appended are as many as successCount, they are the tasks of
\* the successful emails in request order, and the handler answers only
\* after the pass for the last email, whatever failed before it.
C20_BulkAccounting == [][C20_Step]_vars /\ [](C20_Lists /\ C20_Response)

\* reached: the case of C20 has happened
C20_Witness ==
    /\ bulk.pc = "done"
    /\ bulk.n = 2
    /\ bulk.emails[1].Subject = " "
    /\ bulk.resp.status = 207
    /\ bulk.resp.failedCount = 1
    /\ bulk.resp.successCount = 1
    /\ bulk.failed = <<Addr(1)>>
    /\ bulk.success = <<Addr(2)>>
    /\ Len(queue) = 2
    /\ queue[2] = bulk.appended[1]

\* ------------------------------------------------------------------ C21
\* workers between a pop and the end of the attempt or requeue of what they popped
Attempting == {w \in Workers : pc[w] \in {"send", "retryDelay"}}

\* a pop hands the head entry to one worker, and an attempt is one worker's
C21_Step ==
    /\ Len(queue') < Len(queue) =>
         \E w \in Workers :
             /\ pc[w] = "pop"
             /\ pc'[w] \in {"send", "errSleep"}
             /\ queue' = Tail(queue)
             /\ pc'[w] = "send" => (held'[w] = Head(sent).seq /\ task'[w] = Entry(1))
             /\ \A w2 \in Workers \ {w} :
                  pc'[w2] = pc[w2] /\ task'[w2] = task[w2] /\ held'[w2] = held[w2]
    /\ \A id \in Requests :
         Attempts(id)' # Attempts(id) =>
             /\ Attempts(id)' = Attempts(id) + 1
             /\ \E w \in Workers :
                  /\ Holding(id) = {w}
                  /\ pc[w] = "send"
                  /\ pc'[w] # "send"
                  /\ \A w2 \in Workers \ {w} : pc'[w2] = pc[w2] /\ task'[w2] = task[w2]

\* no entry is in two places, and the retry bound holds
C21_Exclusive ==
    /\ \A w1, w2 \in Attempting : w1 # w2 => held[w1] # held[w2]
    /\ \A w \in Attempting : held[w] \notin Serials(sent)
    /\ \A id \in Requests :
         /\ Cardinality(Holding(id)) + Cardinality(EntriesOf(id)) <= 1
         /\ Cardinality(EntriesOf(id)) + AtSend(id) + Attempts(id) = log[MsgEnqueued][id]
         /\ \A i \in EntriesOf(id) : Entry(i).Retries \in 0..maxRetries
         /\ \A w \in Holding(id) : task[w].Retries \in 0..maxRetries
         /\ Attempts(id) <= maxRetries + 1

\* C21: with every worker started on the same list, a pop removes the head
\* entry and gives it to exactly one worker; no two workers hold the same
\* entry and a held entry is not in the list; every attempt of a task is
\* made by the one worker holding it, once per entry appended for it; and
\* attemptCount stays within 0..3, with at most four attempts per task.
C21_SharedQueue == [][C21_Step]_vars /\ []C21_Exclusive

\* reached: the case of C21 has happened
C21_Witness ==
    /\ pc[1] = "send"
    /\ pc[2] = "retryDelay"
    /\ Id(task[1]) \in Requests
    /\ Id(task[2]) \in Requests
    /\ Id(task[1]) # Id(task[2])
    /\ task[2].Retries = maxRetries
    /\ held[1] # held[2]

\* ------------------------------------------------------------------ C22
\* the places request id's task is in: entries, workers, final outcomes
Places(id) ==
    Cardinality(EntriesOf(id)) + Cardinality(Holding(id)) + Cardinality(Outcomes(id))

\* C22: a task EnqueueEmail accepted is in exactly one place: one entry of
\* the list, or one worker (in its attempt or retry delay), or finished with
\* one outcome (delivered, dropped at the ceiling, lost by a failed requeue);
\* a task that was not accepted is nowhere; the list never holds two entries
\* of one task, and no task is both delivered and reported as a terminal
\* failure, or reported twice.
C22_Conservation ==
    \A id \in Requests :
        /\ Accepted(id) => Places(id) = 1
        /\ ~Accepted(id) => Places(id) = 0
        /\ Cardinality(EntriesOf(id)) <= 1
        /\ log[MsgSent][id] + log[MsgMaxRetries][id] <= 1

\* reached: the case of C22 has happened
C22_Witness ==
    \E id1, id2 \in Requests, w \in Workers :
        /\ Outcomes(id1) = {"lost"}
        /\ Places(id1) = 1
        /\ Holding(id2) = {w}
        /\ pc[w] = "retryDelay"
        /\ task[w].Retries = 2
        /\ log[MsgSent][id2] = 0

\* ------------------------------------------------------------------ C23
\* the error of a requeue made with the cancelled context, after delivery error e
CancelledRequeue(e) ==
    <<"failed to requeue email", "failed to enqueue email task", "context canceled",
      "original error">> \o e

\* the requeue step of a worker whose context is cancelled, and every append
\* after the cancellation
C23_Step ==
    /\ \A w \in Workers :
         (cancelled /\ pc[w] = "retryDelay" /\ pc'[w] # "retryDelay" /\ ~HasEmptyField(task[w])) =>
             /\ popped[w].Retries < maxRetries
             /\ pc'[w] = "errSleep"
             /\ err'[w] = CancelledRequeue(err[w])
             /\ queue' = queue
             /\ task'[w] = ZeroTask
             /\ \A id \in Requests : Id(task[w]) = id => Lost(id)'
    /\ (cancelled /\ Len(queue') > Len(queue)) =>
         \E r \in Requests : reqPc[r] = "called" /\ reqPc'[r] = "done" /\ reqRet'[r] = <<>>

\* once the context is cancelled a task that was lost is not back in the
\* list, and a stopped worker has left nothing behind in a retry
C23_NotPutBack ==
    cancelled =>
        \A id \in Requests :
            /\ Lost(id) => ~InQueue(id) /\ ~InFlight(id)
            /\ (\A w \in Workers : pc[w] \in {"stopped", "off"}) => Delaying(id) = {}

\* C23: a requeue issued after the worker's context was cancelled (the
\* signal fired during the attempt or the retry delay of a task popped with
\* attemptCount < 3) appends nothing: sendEmailWithRetry returns the compound
\* error with the cancellation as the requeue's cause, and the task is lost;
\* after the cancellation only a request's own enqueue appends to the list,
\* and a lost task is in no entry and no worker when the worker stops.
C23_RequeueUsesWorkerContext == [][C23_Step]_vars /\ []C23_NotPutBack

\* reached: the case of C23 has happened
C23_Witness ==
    \E w \in Workers, id \in Requests :
        /\ cancelled
        /\ pc[w] = "errSleep"
        /\ err[w] = CancelledRequeue(<<"delivery failed">>)
        /\ Accepted(id)
        /\ Lost(id)
        /\ log[MsgRequeueing][id] = 3
        /\ log[MsgEnqueued][id] = 3

\* ------------------------------------------------------------------ C24
\* number of entries of q that decode to a task with an empty required field
Incomplete(q) ==
    Cardinality({i \in 1..Len(q) : q[i].json /\ HasEmptyField(Unmarshal(q[i]).task)})

\* the errors SendEmail returns for a task with an empty field
InputErrors ==
    {<<"recipient email address cannot be empty">>, <<"email subject cannot be empty">>,
     <<"email template name cannot be empty">>}

\* C24 as stated: whatever such a payload carries, its one attempt is
\* followed by a requeue that validation rejects, so it never ends with the
\* terminal-failure report; nothing is appended for it.
C24_AsStated ==
    /\ log[MsgMaxRetries][0] = 0
    /\ log[MsgSent][0] = 0
    /\ log[MsgEnqueued][0] = 0
    /\ Attempts(0) <= 1

\* the attempt and the requeue of a task with an empty field
C24_Step ==
    /\ \A w \in Workers :
         /\ (pc[w] = "send" /\ pc'[w] # "send" /\ HasEmptyField(task[w])) =>
                /\ err'[w] \in InputErrors
                /\ log'[MsgSent] = log[MsgSent]
                /\ queue' = queue
                /\ IF task[w].Retries < maxRetries
                   THEN pc'[w] = "retryDelay" /\ HasEmptyField(task'[w])
                   ELSE pc'[w] = "errSleep" /\ log' = Logged(log, MsgMaxRetries, Id(task[w]))
         /\ (pc[w] = "retryDelay" /\ pc'[w] # "retryDelay" /\ HasEmptyField(task[w])) =>
                /\ pc'[w] = "errSleep"
                /\ Len(err'[w]) = 5
                /\ err'[w][1] = "failed to requeue email"
                /\ err'[w][2] = "invalid email task"
                /\ err'[w][4] = "original error"
                /\ <<err'[w][5]>> \in InputErrors
                /\ queue' = queue
                /\ log' = log
    /\ Incomplete(queue') <= Incomplete(queue)

\* the payload is attempted at most once, never delivered, never appended
C24_Once ==
    /\ Attempts(0) <= 1
    /\ log[MsgSent][0] = 0
    /\ log[MsgEnqueued][0] = 0
    /\ Incomplete(queue) <= 1
    /\ Attempts(0) = 1 => Incomplete(queue) = 0

\* C24 (amended): a popped payload that decodes to a task with an empty
\* recipient, subject or templateName is attempted exactly once and its
\* delivery fails on the empty field.  With attemptCount < 3 the requeue
\* follows, validation rejects it and the compound error is returned; with
\* attemptCount >= 3 no requeue is made and the delivery error is returned
\* after the terminal-failure report.  Either way nothing is appended, and
\* no step adds such an entry to the list.
C24_IncompleteTaskNeverCycles == [][C24_Step]_vars /\ []C24_Once

\* reached: the case of C24 has happened
C24_Witness ==
    \E w \in Workers, id \in Requests :
        /\ pc[w] = "errSleep"
        /\ err[w] = <<"failed to requeue email", "invalid email task",
                      "email subject is required", "original error",
                      "email subject cannot be empty">>
        /\ log[MsgRequeueing][0] = 1
        /\ InQueue(id)
        /\ Incomplete(queue) = 0

====
